---- MODULE Spec2Model ----
(***************************************************************************)
(* Model of core/os/device/remotessh/commands.go: remote command start and *)
(* wait (sshShellTarget.Start, remoteProcess.Wait/Kill), the command line  *)
(* Start composes, and the TCP tunnel (binding.SetupLocalPort, doTunnel).  *)
(***************************************************************************)
EXTENDS Integers, Sequences, FiniteSets, TLC

\* ------------------------------------------------------------------ bounds
\* Bytes the remote command may write to stdout and stderr together.
MaxBytes == 2

\* Local connections the tunnel listener may accept.
MaxConns == 2

\* Bytes the two ends of the tunnels may send, all connections together.
MaxTunBytes == 2

\* Entries in one environment.
MaxEnv == 2

\* Byte values carried by the streams.
Byte == {0, 1}

OutStreams == {"stdout", "stderr"}
Streams == {"stdin"} \cup OutStreams

VARIABLES
  \* --- one invocation of sshShellTarget.Start and the process it returns
  cmd,        \* shell.Cmd: which of Stdin/Stdout/Stderr the caller supplies
  startPc,    \* position of Start
  session,    \* the ssh session (execution channel) opened by Start
  wg,         \* remoteProcess.wg
  relay,      \* the goroutines Start spawns, one per stream
  relayEnd,   \* why a stdout/stderr relay's io.Copy returned
  pipe,       \* bytes buffered in the session's stdout/stderr pipe
  pipeEOF,    \* the pipe has reached end-of-data
  caller,     \* bytes written so far to cmd.Stdout / cmd.Stderr
  wrote,      \* bytes the remote command has written to stdout / stderr
  remote,     \* the remote command
  transport,  \* the shared ssh connection is up
  exitStatus, \* the exit status the session has received
  stdinEOF,   \* cmd.Stdin is exhausted
  stdinClosed,\* the channel's stdin pipe has been closed
  signalled,  \* a signal was sent on the session by Kill
  killPc,     \* position of remoteProcess.Kill: "idle" or "returned"
  waitPc,     \* position of remoteProcess.Wait
  waitRet     \* what Wait returned

procVars == <<cmd, startPc, session, wg, relay, relayEnd, pipe, pipeEOF, caller,
              wrote, remote, transport, exitStatus, stdinEOF, stdinClosed,
              signalled, killPc, waitPc, waitRet>>

VARIABLES
  \* --- the command line Start composes
  cmdEnv,     \* cmd.Environment: <<key, value>> entries in Keys() order
  devEnv,     \* t.b.env: the device-level default environment
  cmdDir,     \* cmd.Dir
  val,        \* the string handed to session.Start
  composed    \* val has been composed

lineVars == <<cmdEnv, devEnv, cmdDir, val, composed>>

VARIABLES
  \* --- binding.SetupLocalPort and the tunnels of its accept loop
  setup,      \* SetupLocalPort: "idle", "returned" (a port) or "error"
  listener,   \* the net.Listener: "none", "open" or "closed"
  cancelled,  \* task.ShouldStop(ctx) has fired
  watcher,    \* the goroutine of lines 262-265
  acceptPc,   \* the accept loop of lines 266-277
  accepted,   \* local connections accepted so far; the newest is the current one
  pair,       \* per connection: "none", "accepted", "up" or "dialfailed"
  closed,     \* per connection and socket: Close has been called on it
  peer,       \* per connection and socket: the far end is "open", at "eof" or "reset"
  inb,        \* per connection and socket: bytes received and not yet read
  rd,         \* per connection and socket: bytes a pump has read from it
  out,        \* per connection and socket: bytes a pump has written to it
  pump,       \* per connection and source socket: the copy goroutine reading it
  pumpEnd,    \* why that copy left its loop
  lastRound,  \* per connection and source socket: the last Read and Write of the copy
  logged,     \* per connection and source socket: the copy logged "Copy Error"
  twg,        \* per connection: doTunnel's wg
  sup         \* per connection: the goroutine of lines 246-250

tunVars == <<setup, listener, cancelled, watcher, acceptPc, accepted, pair, closed,
             peer, inb, rd, out, pump, pumpEnd, lastRound, logged, twg, sup>>

VARIABLES
  \* --- the path and temp-directory operations of binding
  os,         \* b.os, the remote device's OS kind
  kind,       \* what the probed path is on the remote: "dir", "file" or "none"
  fsOp,       \* the operation in progress, "idle" when there is none
  fsPc,       \* its position
  fsCalls,    \* sessions it has opened on the transport so far
  cdOut,      \* how its `cd` Call went: "none", "ok", "exit" or "transport"
  statOut,    \* how its `stat` Call went
  fsRet,      \* what it returned
  isDir,      \* the last value IsDirectory returned for the path
  isFile      \* the last value IsFile returned for the path

fsVars == <<os, kind, fsOp, fsPc, fsCalls, cdOut, statOut, fsRet, isDir, isFile>>

vars == <<procVars, lineVars, tunVars, fsVars>>

\* --------------------------------------------------- the composed command line
\* Strings are sequences of one-character strings.
EnvKeys == {<<"A">>, <<"B">>, <<"A", " ">>, <<>>}
EnvVals == {<<"x">>, <<"x", " ", "y">>}
Dirs == {<<>>, <<"d">>}

\* cmd.Name and strings.Join(cmd.Args, " ")
CmdName == <<"n">>
CmdArgs == <<"a">>

\* shell.Env values: at most MaxEnv entries, keys unique.
Envs ==
  {e \in UNION {[1..n -> EnvKeys \X EnvVals] : n \in 0..MaxEnv} :
     \A i, j \in DOMAIN e : e[i][1] = e[j][1] => i = j}

RECURSIVE TrimLeft(_)
TrimLeft(str) ==
  IF str # <<>> /\ Head(str) = " " THEN TrimLeft(Tail(str)) ELSE str

RECURSIVE TrimRight(_)
TrimRight(str) ==
  IF str # <<>> /\ str[Len(str)] = " "
  THEN TrimRight(SubSeq(str, 1, Len(str) - 1))
  ELSE str

\* strings.TrimSpace
TrimSpace(str) == TrimRight(TrimLeft(str))

\* text.Quote([]string{v})[0]: a value that is empty or holds white space is
\* wrapped in double quotes so that it stays one shell word.
Quote(v) ==
  IF v = <<>> \/ \E i \in DOMAIN v : v[i] = " "
  THEN <<"\"">> \o v \o <<"\"">>
  ELSE v

\* for _, e := range env.Keys() { if e != "" { prefix += TrimSpace(e) + "=" + val + " " } }
RECURSIVE EnvPrefix(_)
EnvPrefix(env) ==
  IF env = <<>> THEN <<>>
  ELSE (IF Head(env)[1] # <<>>
        THEN TrimSpace(Head(env)[1]) \o <<"=">> \o Quote(Head(env)[2]) \o <<" ">>
        ELSE <<>>)
       \o EnvPrefix(Tail(env))

\* prefix := "cd " + cmd.Dir + "; " (when set), then cmd.Environment, then
\* t.b.env; val := prefix + cmd.Name + " " + strings.Join(cmd.Args, " ")
Compose(dir, cenv, denv) ==
  (IF dir # <<>> THEN <<"c", "d", " ">> \o dir \o <<";", " ">> ELSE <<>>)
    \o EnvPrefix(cenv) \o EnvPrefix(denv) \o CmdName \o <<" ">> \o CmdArgs

\* The remote shell splits a line into the words of its last simple command:
\* white space separates words, double quotes group, ";" ends a command.
RECURSIVE ShellWords(_, _, _, _, _)
ShellWords(str, words, cur, inWord, inQuote) ==
  IF str = <<>> THEN (IF inWord THEN Append(words, cur) ELSE words)
  ELSE LET c == Head(str)
           r == Tail(str)
       IN  IF c = "\"" THEN ShellWords(r, words, cur, TRUE, ~inQuote)
           ELSE IF inQuote THEN ShellWords(r, words, Append(cur, c), TRUE, TRUE)
           ELSE IF c = " "
             THEN ShellWords(r, IF inWord THEN Append(words, cur) ELSE words,
                             <<>>, FALSE, FALSE)
           ELSE IF c = ";" THEN ShellWords(r, <<>>, <<>>, FALSE, FALSE)
           ELSE ShellWords(r, words, Append(cur, c), TRUE, FALSE)

\* Position of the first "=" of a word, 0 when it has none.
EqAt(w) ==
  IF \E i \in DOMAIN w : w[i] = "="
  THEN CHOOSE i \in DOMAIN w : w[i] = "=" /\ \A j \in 1..(i - 1) : w[j] # "="
  ELSE 0

\* The leading NAME=value words of a simple command are its assignments.
RECURSIVE Assignments(_)
Assignments(words) ==
  IF words = <<>> \/ EqAt(Head(words)) < 2 THEN <<>>
  ELSE <<Head(words)>> \o Assignments(Tail(words))

\* The value the shell gives `name` for the command: assignments apply left to
\* right, so the last one for a name wins; <<"unset">> when there is none.
RECURSIVE Lookup(_, _, _)
Lookup(asg, name, sofar) ==
  IF asg = <<>> THEN sofar
  ELSE LET w == Head(asg)
           k == EqAt(w)
       IN  Lookup(Tail(asg), name,
                  IF SubSeq(w, 1, k - 1) = name
                  THEN SubSeq(w, k + 1, Len(w))
                  ELSE sofar)

EffectiveEnv(line, name) ==
  Lookup(Assignments(ShellWords(line, <<>>, <<>>, FALSE, FALSE)), name, <<"unset">>)

\* ------------------------------------------------------------ Start / Wait
LineInit(dir, cenv, denv) ==
  /\ cmdEnv = cenv
  /\ devEnv = denv
  /\ cmdDir = dir
  /\ val = <<>>
  /\ composed = FALSE

Cmds == [Stdin : BOOLEAN, Stdout : BOOLEAN, Stderr : BOOLEAN]

Supplied(s) ==
  IF s = "stdin" THEN cmd.Stdin ELSE IF s = "stdout" THEN cmd.Stdout ELSE cmd.Stderr

ProcInit(c) ==
  /\ cmd = c
  /\ startPc = "NewSession"
  /\ session = "none"
  /\ wg = 0
  /\ relay = [s \in Streams |-> "none"]
  /\ relayEnd = [s \in OutStreams |-> "none"]
  /\ pipe = [s \in OutStreams |-> <<>>]
  /\ pipeEOF = [s \in OutStreams |-> FALSE]
  /\ caller = [s \in OutStreams |-> <<>>]
  /\ wrote = [s \in OutStreams |-> <<>>]
  /\ remote = "none"
  /\ transport = TRUE
  /\ exitStatus = "none"
  /\ stdinEOF = FALSE
  /\ stdinClosed = FALSE
  /\ signalled = FALSE
  /\ killPc = "idle"
  /\ waitPc = "idle"
  /\ waitRet = "none"

\* A command that redirects nothing.
NoStreams == [Stdin |-> FALSE, Stdout |-> FALSE, Stderr |-> FALSE]

\* session, err := t.b.connection.NewSession(); p := &remoteProcess{...}
StartNewSession ==
  /\ startPc = "NewSession"
  /\ \E ok \in BOOLEAN :
       IF ok /\ transport
       THEN session' = "open" /\ startPc' = "StdinPipe"
       ELSE session' = session /\ startPc' = "error"
  /\ UNCHANGED <<lineVars, tunVars, fsVars, cmd, wg, relay, relayEnd, pipe, pipeEOF, caller, wrote, remote,
                 transport, exitStatus, stdinEOF, stdinClosed, signalled, killPc, waitPc,
                 waitRet>>

\* Mutant of SpawnStdinRelay: the stdin relay is counted in p.wg, which nothing
\* in the goroutine decrements.
SpawnStdinRelayCounted ==
  /\ wg' = wg + 1
  /\ relay' = [relay EXCEPT !["stdin"] = "copying"]

\* crash.Go(func() { defer stdin.Close(); io.Copy(stdin, cmd.Stdin) }), with no
\* p.wg.Add
SpawnStdinRelay ==
  /\ wg' = wg
  /\ relay' = [relay EXCEPT !["stdin"] = "copying"]

\* if cmd.Stdin != nil { stdin, err := session.StdinPipe(); ...; crash.Go(...) }
StartStdin ==
  /\ startPc = "StdinPipe"
  /\ IF cmd.Stdin
     THEN \E ok \in BOOLEAN :
            IF ok
            THEN SpawnStdinRelay /\ startPc' = "StdoutPipe"
            ELSE wg' = wg /\ relay' = relay /\ startPc' = "error"
     ELSE wg' = wg /\ relay' = relay /\ startPc' = "StdoutPipe"
  /\ UNCHANGED <<lineVars, tunVars, fsVars, cmd, session, relayEnd, pipe, pipeEOF, caller, wrote, remote,
                 transport, exitStatus, stdinEOF, stdinClosed, signalled, killPc, waitPc,
                 waitRet>>

\* Mutant of SpawnRelay: the relay is spawned without being counted in p.wg.
SpawnRelayUncounted(s) ==
  /\ wg' = wg
  /\ relay' = [relay EXCEPT ![s] = "copying"]

\* p.wg.Add(1); crash.Go(func() { io.Copy(w, r); p.wg.Done() })
SpawnRelay(s) ==
  /\ wg' = wg + 1
  /\ relay' = [relay EXCEPT ![s] = "copying"]

\* if cmd.Stdout != nil { ... } and if cmd.Stderr != nil { ... }
StartOut(s, here, next) ==
  /\ startPc = here
  /\ IF Supplied(s)
     THEN \E ok \in BOOLEAN :
            IF ok
            THEN SpawnRelay(s) /\ startPc' = next
            ELSE wg' = wg /\ relay' = relay /\ startPc' = "error"
     ELSE wg' = wg /\ relay' = relay /\ startPc' = next
  /\ UNCHANGED <<lineVars, tunVars, fsVars, cmd, session, relayEnd, pipe, pipeEOF, caller, wrote, remote,
                 transport, exitStatus, stdinEOF, stdinClosed, signalled, killPc, waitPc,
                 waitRet>>

StartStdout == StartOut("stdout", "StdoutPipe", "StderrPipe")

StartStderr == StartOut("stderr", "StderrPipe", "SessionStart")

\* lines 104-128: val is composed and sent: if err := session.Start(val);
\* err != nil { return nil, err }; return p, nil
StartSessionStart ==
  /\ startPc = "SessionStart"
  /\ val' = Compose(cmdDir, cmdEnv, devEnv)
  /\ composed' = TRUE
  /\ \E ok \in BOOLEAN :
       IF ok /\ session = "open"
       THEN session' = "started" /\ remote' = "running" /\ startPc' = "returned"
       ELSE session' = session /\ remote' = remote /\ startPc' = "error"
  /\ UNCHANGED <<cmdEnv, devEnv, cmdDir, tunVars, fsVars, cmd, wg, relay, relayEnd, pipe,
                 pipeEOF, caller, wrote, transport, exitStatus, stdinEOF,
                 stdinClosed, signalled, killPc, waitPc, waitRet>>

Start == StartNewSession \/ StartStdin \/ StartStdout \/ StartStderr \/ StartSessionStart

\* ----------------------------------------------------- the relay goroutines
\* One Read/Write round of io.Copy(cmd.Stdout, stdout): a chunk of the pipe is
\* read and written to the caller's stream. io.Copy returns at the first
\* failed Write; the bytes it had read are then not delivered.
RelayCopy(s) ==
  /\ relay[s] = "copying"
  /\ pipe[s] # <<>>
  /\ \E n \in 1..Len(pipe[s]), wok \in BOOLEAN :
       /\ pipe' = [pipe EXCEPT ![s] = SubSeq(pipe[s], n + 1, Len(pipe[s]))]
       /\ IF wok
          THEN /\ caller' = [caller EXCEPT ![s] = caller[s] \o SubSeq(pipe[s], 1, n)]
               /\ UNCHANGED <<relay, relayEnd>>
          ELSE /\ relay' = [relay EXCEPT ![s] = "copied"]
               /\ relayEnd' = [relayEnd EXCEPT ![s] = "werr"]
               /\ UNCHANGED caller
  /\ UNCHANGED <<lineVars, tunVars, fsVars, cmd, startPc, session, wg, pipeEOF, wrote, remote, transport,
                 exitStatus, stdinEOF, stdinClosed, signalled, killPc, waitPc, waitRet>>

\* io.Copy's Read returns io.EOF: the copy returns.
RelayEOF(s) ==
  /\ relay[s] = "copying"
  /\ pipe[s] = <<>>
  /\ pipeEOF[s]
  /\ relay' = [relay EXCEPT ![s] = "copied"]
  /\ relayEnd' = [relayEnd EXCEPT ![s] = "eof"]
  /\ UNCHANGED <<lineVars, tunVars, fsVars, cmd, startPc, session, wg, pipe, pipeEOF, caller, wrote, remote,
                 transport, exitStatus, stdinEOF, stdinClosed, signalled, killPc, waitPc,
                 waitRet>>

\* p.wg.Done()
RelayDone(s) ==
  /\ relay[s] = "copied"
  /\ relay' = [relay EXCEPT ![s] = "done"]
  /\ wg' = wg - 1
  /\ UNCHANGED <<lineVars, tunVars, fsVars, cmd, startPc, session, relayEnd, pipe, pipeEOF, caller, wrote,
                 remote, transport, exitStatus, stdinEOF, stdinClosed, signalled, killPc,
                 waitPc, waitRet>>

\* The stdin goroutine: defer stdin.Close(); io.Copy(stdin, cmd.Stdin). The copy
\* returns when cmd.Stdin is exhausted or a write to the channel fails.
StdinRelayEnd ==
  /\ relay["stdin"] = "copying"
  /\ stdinEOF \/ session = "closed"
  /\ relay' = [relay EXCEPT !["stdin"] = "done"]
  /\ stdinClosed' = TRUE
  /\ UNCHANGED <<lineVars, tunVars, fsVars, cmd, startPc, session, wg, relayEnd, pipe, pipeEOF, caller, wrote,
                 remote, transport, exitStatus, stdinEOF, signalled, killPc, waitPc, waitRet>>

\* The caller's input stream reaches its end.
CallerStdinEOF ==
  /\ cmd.Stdin
  /\ ~stdinEOF
  /\ stdinEOF' = TRUE
  /\ UNCHANGED <<lineVars, tunVars, fsVars, cmd, startPc, session, wg, relay, relayEnd, pipe, pipeEOF, caller,
                 wrote, remote, transport, exitStatus, stdinClosed, signalled, killPc,
                 waitPc, waitRet>>

\* ------------------------------------------- the remote side and the transport
\* The remote command writes one byte to a redirected stream; it reaches the
\* session's pipe while the transport is up.
RemoteWrite(s, b) ==
  /\ remote = "running"
  /\ Supplied(s)
  /\ Len(wrote["stdout"]) + Len(wrote["stderr"]) < MaxBytes
  /\ wrote' = [wrote EXCEPT ![s] = Append(wrote[s], b)]
  /\ pipe' = IF transport THEN [pipe EXCEPT ![s] = Append(pipe[s], b)] ELSE pipe
  /\ UNCHANGED <<lineVars, tunVars, fsVars, cmd, startPc, session, wg, relay, relayEnd, pipeEOF, caller,
                 remote, transport, exitStatus, stdinEOF, stdinClosed, signalled, killPc,
                 waitPc, waitRet>>

\* The remote command exits; over a live transport the session receives the exit
\* status and end-of-data, and the channel is closed.
RemoteExit(st) ==
  /\ remote = "running"
  /\ remote' = "exited"
  /\ IF transport
     THEN /\ exitStatus' = st
          /\ pipeEOF' = [s \in OutStreams |-> TRUE]
          /\ session' = "closed"
     ELSE UNCHANGED <<exitStatus, pipeEOF, session>>
  /\ UNCHANGED <<lineVars, tunVars, fsVars, cmd, startPc, wg, relay, relayEnd, pipe, caller, wrote, transport,
                 stdinEOF, stdinClosed, signalled, killPc, waitPc, waitRet>>

\* The connection is lost: every channel on it is closed, and its pipes read
\* end-of-data after what they had buffered.
TransportDrop ==
  /\ transport
  /\ session \in {"open", "started"}
  /\ transport' = FALSE
  /\ session' = "closed"
  /\ pipeEOF' = [s \in OutStreams |-> TRUE]
  /\ UNCHANGED <<lineVars, tunVars, fsVars, cmd, startPc, wg, relay, relayEnd, pipe, caller, wrote, remote,
                 exitStatus, stdinEOF, stdinClosed, signalled, killPc, waitPc, waitRet>>

\* ------------------------------------------------------------- remoteProcess
\* The caller holds the process once Start has returned it.
HasProcess == startPc = "returned"

\* func (r *remoteProcess) Kill() error { return r.session.Signal(ssh.SIGSEGV) }
\* The signal goes out on a channel that is still open; on a closed one Signal
\* returns an error and nothing is sent.
Kill ==
  /\ HasProcess
  /\ killPc = "idle"
  /\ signalled' = (signalled \/ session = "started")
  /\ killPc' = "returned"
  /\ UNCHANGED <<lineVars, tunVars, fsVars, cmd, startPc, session, wg, relay, relayEnd, pipe, pipeEOF, caller,
                 wrote, remote, transport, exitStatus, stdinEOF, stdinClosed,
                 waitPc, waitRet>>

\* The caller calls Wait.
WaitCall ==
  /\ HasProcess
  /\ waitPc = "idle"
  /\ waitPc' = "sessionWait"
  /\ UNCHANGED <<lineVars, tunVars, fsVars, cmd, startPc, session, wg, relay, relayEnd, pipe, pipeEOF, caller,
                 wrote, remote, transport, exitStatus, stdinEOF, stdinClosed,
                 signalled, killPc, waitRet>>

\* Mutant of SessionWaitDone: Wait does not wait for the session.
SessionWaitSkipped == TRUE

\* Mutant of SessionWaitDone: Wait gives up when its context is cancelled.
SessionWaitOrCancelled == session = "closed" \/ cancelled

\* r.session.Wait() blocks until the channel is closed; ctx is not consulted.
SessionWaitDone == session = "closed"

\* ret := r.session.Wait(): returns once the channel is closed, nil only for a
\* received exit status of zero.
WaitSession ==
  /\ waitPc = "sessionWait"
  /\ SessionWaitDone
  /\ waitRet' = IF exitStatus = "zero" THEN "nil" ELSE "err"
  /\ waitPc' = "wgWait"
  /\ UNCHANGED <<lineVars, tunVars, fsVars, cmd, startPc, session, wg, relay, relayEnd, pipe, pipeEOF, caller,
                 wrote, remote, transport, exitStatus, stdinEOF, stdinClosed,
                 signalled, killPc>>

\* Mutant of WgWaitDone: Wait does not wait for the relay counter.
WgWaitSkipped == TRUE

\* r.wg.Wait() blocks until the counter is zero.
WgWaitDone == wg = 0

\* r.wg.Wait(); return ret
WaitWg ==
  /\ waitPc = "wgWait"
  /\ WgWaitDone
  /\ waitPc' = "returned"
  /\ UNCHANGED <<lineVars, tunVars, fsVars, cmd, startPc, session, wg, relay, relayEnd, pipe, pipeEOF, caller,
                 wrote, remote, transport, exitStatus, stdinEOF, stdinClosed,
                 signalled, killPc, waitRet>>

Wait == WaitCall \/ WaitSession \/ WaitWg

\* ---------------------------------------------------------------- the context
\* The context's stop signal fires.
Cancel ==
  /\ ~cancelled
  /\ cancelled' = TRUE
  /\ UNCHANGED <<procVars, lineVars, fsVars, setup, listener, watcher, acceptPc, accepted,
                 pair, closed, peer, inb, rd, out, pump, pumpEnd, lastRound, logged, twg, sup>>

NextProc ==
  \/ StartNewSession
  \/ StartStdin
  \/ StartStdout
  \/ StartStderr
  \/ StartSessionStart
  \/ \E s \in OutStreams : RelayCopy(s)
  \/ \E s \in OutStreams : RelayEOF(s)
  \/ \E s \in OutStreams : RelayDone(s)
  \/ StdinRelayEnd
  \/ CallerStdinEOF
  \/ \E s \in OutStreams, b \in Byte : RemoteWrite(s, b)
  \/ \E st \in {"zero", "nonzero"} : RemoteExit(st)
  \/ TransportDrop
  \/ Kill
  \/ WaitCall
  \/ WaitSession
  \/ WaitWg

\* Start, Kill and Wait of a command that writes no output, with the context
\* passed to Wait being cancelled at any moment.
NextWait ==
  \/ StartNewSession
  \/ StartStdin
  \/ StartStdout
  \/ StartStderr
  \/ StartSessionStart
  \/ \E s \in OutStreams : RelayEOF(s)
  \/ \E s \in OutStreams : RelayDone(s)
  \/ StdinRelayEnd
  \/ CallerStdinEOF
  \/ \E st \in {"zero", "nonzero"} : RemoteExit(st)
  \/ TransportDrop
  \/ Kill
  \/ WaitCall
  \/ WaitSession
  \/ WaitWg
  \/ Cancel


\* ------------------------------------------------------------------ the tunnel
Conns == 1..MaxConns
Sides == {"local", "remote"}

\* copy(writer, reader): the pump reading one socket of a pair writes the other.
Other(side) == IF side = "local" THEN "remote" ELSE "local"

\* The Read and Write results of a copy that has not left its loop.
NoRound == [ro |-> [nr |-> 0, er |-> "none"],
            wo |-> [nw |-> 0, ew |-> FALSE, did |-> FALSE]]

TunnelInit ==
  /\ setup = "idle"
  /\ listener = "none"
  /\ cancelled = FALSE
  /\ watcher = "none"
  /\ acceptPc = "none"
  /\ accepted = 0
  /\ pair = [i \in Conns |-> "none"]
  /\ closed = [i \in Conns |-> [s \in Sides |-> FALSE]]
  /\ peer = [i \in Conns |-> [s \in Sides |-> "open"]]
  /\ inb = [i \in Conns |-> [s \in Sides |-> <<>>]]
  /\ rd = [i \in Conns |-> [s \in Sides |-> <<>>]]
  /\ out = [i \in Conns |-> [s \in Sides |-> <<>>]]
  /\ pump = [i \in Conns |-> [s \in Sides |-> "none"]]
  /\ pumpEnd = [i \in Conns |-> [s \in Sides |-> "none"]]
  /\ lastRound = [i \in Conns |-> [s \in Sides |-> NoRound]]
  /\ logged = [i \in Conns |-> [s \in Sides |-> FALSE]]
  /\ twg = [i \in Conns |-> 0]
  /\ sup = [i \in Conns |-> "none"]

\* listener, err := net.Listen("tcp", ":0"); the two goroutines are started and
\* the port is returned.
SetupLocalPort ==
  /\ setup = "idle"
  /\ \E ok \in BOOLEAN :
       IF ok
       THEN /\ listener' = "open"
            /\ watcher' = "waiting"
            /\ acceptPc' = "accept"
            /\ setup' = "returned"
       ELSE /\ setup' = "error"
            /\ UNCHANGED <<listener, watcher, acceptPc>>
  /\ UNCHANGED <<procVars, lineVars, fsVars, cancelled, accepted, pair, closed, peer, inb,
                 rd, out, pump, pumpEnd, lastRound, logged, twg, sup>>

\* Mutant of WatcherClose: the watcher returns without closing the listener.
WatcherNoClose ==
  /\ watcher = "waiting"
  /\ cancelled
  /\ watcher' = "done"
  /\ UNCHANGED <<procVars, lineVars, fsVars, setup, listener, cancelled, acceptPc, accepted,
                 pair, closed, peer, inb, rd, out, pump, pumpEnd, lastRound, logged, twg, sup>>

\* <-task.ShouldStop(ctx); listener.Close()
WatcherClose ==
  /\ watcher = "waiting"
  /\ cancelled
  /\ listener' = "closed"
  /\ watcher' = "done"
  /\ UNCHANGED <<procVars, lineVars, fsVars, setup, cancelled, acceptPc, accepted, pair,
                 closed, peer, inb, rd, out, pump, pumpEnd, lastRound, logged, twg, sup>>

\* local, err := listener.Accept() returns a new local connection.
AcceptConn ==
  /\ acceptPc = "accept"
  /\ listener = "open"
  /\ accepted < MaxConns
  /\ accepted' = accepted + 1
  /\ pair' = [pair EXCEPT ![accepted + 1] = "accepted"]
  /\ acceptPc' = "dial"
  /\ UNCHANGED <<procVars, lineVars, fsVars, setup, listener, cancelled, watcher, closed,
                 peer, inb, rd, out, pump, pumpEnd, lastRound, logged, twg, sup>>

\* Accept on the closed listener returns an error: the loop returns.
AcceptClosed ==
  /\ acceptPc = "accept"
  /\ listener = "closed"
  /\ acceptPc' = "exited"
  /\ UNCHANGED <<procVars, lineVars, fsVars, setup, listener, cancelled, watcher, accepted,
                 pair, closed, peer, inb, rd, out, pump, pumpEnd, lastRound, logged, twg, sup>>

\* Mutant of AcceptFail: the loop returns without closing the listener.
AcceptFailNoClose ==
  /\ acceptPc = "accept"
  /\ listener = "open"
  /\ acceptPc' = "exited"
  /\ UNCHANGED <<procVars, lineVars, fsVars, setup, listener, cancelled, watcher, accepted,
                 pair, closed, peer, inb, rd, out, pump, pumpEnd, lastRound, logged, twg, sup>>

\* Accept fails on the open listener: the loop returns and the deferred
\* listener.Close() runs.
AcceptFail ==
  /\ acceptPc = "accept"
  /\ listener = "open"
  /\ acceptPc' = "exited"
  /\ listener' = "closed"
  /\ UNCHANGED <<procVars, lineVars, fsVars, setup, cancelled, watcher, accepted, pair,
                 closed, peer, inb, rd, out, pump, pumpEnd, lastRound, logged, twg, sup>>

\* Mutant of AfterTunnel: the loop goes on to the next Accept whatever doTunnel
\* returned.
AfterTunnelContinue(err) ==
  /\ acceptPc' = "accept"
  /\ listener' = listener

\* if err = b.doTunnel(ctx, local, remotePort); err != nil { return }, with the
\* deferred listener.Close()
AfterTunnel(err) ==
  IF err
  THEN acceptPc' = "exited" /\ listener' = "closed"
  ELSE acceptPc' = "accept" /\ listener' = listener

\* Mutant of TunnelWgAdd: only one of the two pumps is registered.
TunnelWgAddOne == 2 - 1

\* wg.Add(2) in doTunnel, ahead of the two crash.Go(func() { copy(...) }).
TunnelWgAdd == 2

\* doTunnel: the Dial of the remote port, then either local.Close() and the error,
\* or wg.Add(2) and the three goroutines.
doTunnel(i, dialOk) ==
  IF dialOk
  THEN /\ pair' = [pair EXCEPT ![i] = "up"]
       /\ twg' = [twg EXCEPT ![i] = TunnelWgAdd]
       /\ pump' = [pump EXCEPT ![i] = [s \in Sides |-> "running"]]
       /\ sup' = [sup EXCEPT ![i] = "waiting"]
       /\ closed' = closed
  ELSE /\ pair' = [pair EXCEPT ![i] = "dialfailed"]
       /\ closed' = [closed EXCEPT ![i]["local"] = TRUE]
       /\ UNCHANGED <<twg, pump, sup>>

\* One round of the accept loop after Accept: doTunnel and the test of its result.
Tunnel ==
  /\ acceptPc = "dial"
  /\ \E dialOk \in BOOLEAN :
       /\ doTunnel(accepted, dialOk)
       /\ AfterTunnel(~dialOk)
  /\ UNCHANGED <<procVars, lineVars, fsVars, setup, cancelled, watcher, accepted, peer, inb,
                 rd, out, pumpEnd, lastRound, logged>>

\* nr, er := reader.Read(buf): what a Read of socket r of pair i may return.
ReadOutcomes(i, r) ==
  IF closed[i][r] THEN {[nr |-> 0, er |-> "closed"]}
  ELSE {[nr |-> n, er |-> "nil"] : n \in 1..Len(inb[i][r])}
       \cup (IF inb[i][r] # <<>> /\ peer[i][r] = "eof"
             THEN {[nr |-> Len(inb[i][r]), er |-> "EOF"]} ELSE {})
       \cup (IF inb[i][r] = <<>> /\ peer[i][r] = "eof"
             THEN {[nr |-> 0, er |-> "EOF"]} ELSE {})
       \cup (IF inb[i][r] = <<>> /\ peer[i][r] = "reset"
             THEN {[nr |-> 0, er |-> "err"]} ELSE {})

\* Mutant of DoesWrite: the result of the Read is tested before its bytes are
\* written, so the bytes that came with an error or end-of-data are dropped.
WritesUnlessReadEnded(ro) == ro.nr > 0 /\ ro.er = "nil"

\* if nr > 0 { nw, ew := writer.Write(buf[0:nr]) ... }: the Write comes before
\* the test of er.
DoesWrite(ro) == ro.nr > 0

\* nw, ew := writer.Write(buf[0:nr]): what a Write of nr bytes to socket w of pair
\* i may return; no Write happens for nr = 0.
WriteOutcomes(i, w, nr) ==
  IF nr = 0 THEN {[nw |-> 0, ew |-> FALSE, did |-> FALSE]}
  ELSE IF closed[i][w] \/ peer[i][w] = "reset"
       THEN {[nw |-> 0, ew |-> TRUE, did |-> TRUE]}
  ELSE {[nw |-> nr, ew |-> FALSE, did |-> TRUE],
        [nw |-> nr - 1, ew |-> FALSE, did |-> TRUE]}

\* Why the loop of copy is left after one round, "none" when it goes on.
CopyEnd(ro, wo) ==
  IF wo.did /\ wo.ew THEN "werr"
  ELSE IF wo.did /\ ro.nr # wo.nw THEN "short"
  ELSE IF ro.er = "nil" THEN "none"
  ELSE IF ro.er = "EOF" THEN "eof"
  ELSE IF ro.er = "closed" THEN "rclosed"
  ELSE "rerr"

\* The value of err when the loop is left: err = ew, err = io.ErrShortWrite, or
\* if er != io.EOF { err = er }.
CopyErr(ro, wo) ==
  IF wo.did /\ wo.ew THEN "ew"
  ELSE IF wo.did /\ ro.nr # wo.nw THEN "ErrShortWrite"
  ELSE IF ro.er \in {"nil", "EOF"} THEN "nil"
  ELSE ro.er

\* Mutant of Written: the Write is given buf[0:nr-1], one byte short.
WrittenOffByOne(chunk, nw) == SubSeq(chunk, 1, nw - 1)

\* The bytes of buf[0:nr] that a Write returning nw has written.
Written(chunk, nw) == SubSeq(chunk, 1, nw)

\* Mutant of CloseTarget: the goroutine closes the newest connection's socket.
CloseTargetNewest(i) == accepted

\* writer.Close() in copy closes the writer of the pair the goroutine was started
\* for.
CloseTarget(i) == i

\* Mutant of WriterClose: the pump returns without closing its writer.
WriterLeftOpen(i, w) == closed

\* writer.Close() at the end of copy: the sockets closed after it.
WriterClose(i, w) == [closed EXCEPT ![CloseTarget(i)][w] = TRUE]

\* One round of the loop of copy(writer, reader) for the pump of pair i reading
\* socket r, and, when the loop is left, writer.Close(), the log and wg.Done().
copy(i, r) ==
  /\ pump[i][r] = "running"
  /\ \E ro \in ReadOutcomes(i, r) :
     \E wo \in WriteOutcomes(i, Other(r), IF DoesWrite(ro) THEN ro.nr ELSE 0) :
       LET w == Other(r)
           chunk == SubSeq(inb[i][r], 1, ro.nr)
           end == CopyEnd(ro, wo)
       IN  /\ inb' = [inb EXCEPT ![i][r] = SubSeq(inb[i][r], ro.nr + 1, Len(inb[i][r]))]
           /\ rd' = [rd EXCEPT ![i][r] = rd[i][r] \o chunk]
           /\ out' = [out EXCEPT ![i][w] = out[i][w] \o Written(chunk, wo.nw)]
           /\ IF end = "none"
              THEN UNCHANGED <<pump, pumpEnd, lastRound, closed, logged, twg>>
              ELSE /\ pump' = [pump EXCEPT ![i][r] = "done"]
                   /\ pumpEnd' = [pumpEnd EXCEPT ![i][r] = end]
                   /\ lastRound' = [lastRound EXCEPT ![i][r] = [ro |-> ro, wo |-> wo]]
                   /\ closed' = WriterClose(i, w)
                   /\ logged' = [logged EXCEPT ![i][r] = (CopyErr(ro, wo) # "nil")]
                   /\ twg' = [twg EXCEPT ![i] = twg[i] - 1]
  /\ UNCHANGED <<procVars, lineVars, fsVars, setup, listener, cancelled, watcher, acceptPc,
                 accepted, pair, peer, sup>>

\* wg.Wait() in the supervising goroutine blocks until both pumps are done.
TunWgDone(i) == twg[i] = 0

\* defer local.Close(); defer remote.Close(); wg.Wait()
Supervise(i) ==
  /\ sup[i] = "waiting"
  /\ TunWgDone(i)
  /\ sup' = [sup EXCEPT ![i] = "done"]
  /\ closed' = [closed EXCEPT ![i] = [s \in Sides |-> TRUE]]
  /\ UNCHANGED <<procVars, lineVars, fsVars, setup, listener, cancelled, watcher, acceptPc,
                 accepted, pair, peer, inb, rd, out, pump, pumpEnd, lastRound, logged, twg>>

RECURSIVE SumLen(_, _)
SumLen(f, S) ==
  IF S = {} THEN 0
  ELSE LET x == CHOOSE y \in S : TRUE
       IN  Len(f[x[1]][x[2]]) + SumLen(f, S \ {x})

\* Bytes the far ends have sent so far.
TotalSent == SumLen(rd, Conns \X Sides) + SumLen(inb, Conns \X Sides)

\* The far end of socket s of pair i sends a byte.
PeerSend(i, s, b) ==
  /\ pair[i] = "up"
  /\ peer[i][s] = "open"
  /\ ~closed[i][s]
  /\ TotalSent < MaxTunBytes
  /\ inb' = [inb EXCEPT ![i][s] = Append(inb[i][s], b)]
  /\ UNCHANGED <<procVars, lineVars, fsVars, setup, listener, cancelled, watcher, acceptPc,
                 accepted, pair, closed, peer, rd, out, pump, pumpEnd, lastRound, logged, twg,
                 sup>>

\* The far end of socket s of pair i closes its side (how = "eof") or the
\* connection breaks (how = "reset").
PeerEnd(i, s, how) ==
  /\ pair[i] = "up"
  /\ peer[i][s] = "open"
  /\ ~closed[i][s]
  /\ peer' = [peer EXCEPT ![i][s] = how]
  /\ UNCHANGED <<procVars, lineVars, fsVars, setup, listener, cancelled, watcher, acceptPc,
                 accepted, pair, closed, inb, rd, out, pump, pumpEnd, lastRound, logged, twg,
                 sup>>

NextTunnel ==
  \/ SetupLocalPort
  \/ Cancel
  \/ WatcherClose
  \/ AcceptConn
  \/ AcceptClosed
  \/ AcceptFail
  \/ Tunnel
  \/ \E i \in Conns, r \in Sides : copy(i, r)
  \/ \E i \in Conns : Supervise(i)
  \/ \E i \in Conns, s \in Sides, how \in {"eof", "reset"} : PeerEnd(i, s, how)

\* The listener with a single client, whose two ends also send data.
NextPair ==
  \/ SetupLocalPort
  \/ Cancel
  \/ WatcherClose
  \/ accepted = 0 /\ AcceptConn
  \/ AcceptClosed
  \/ AcceptFail
  \/ Tunnel
  \/ \E r \in Sides : copy(1, r)
  \/ Supervise(1)
  \/ \E s \in Sides, b \in Byte : PeerSend(1, s, b)
  \/ \E s \in Sides, how \in {"eof", "reset"} : PeerEnd(1, s, how)

\* ------------------------------------------- path probes and temp directories
\* device.OSKind values b.os may hold.
OSKinds == {"Linux", "OSX", "Windows", "UnknownOS"}

\* What the probed path is on the remote machine; it stays that throughout.
Kinds == {"dir", "file", "none"}

\* Nothing returned yet.
NoRet == [value |-> "none", err |-> "none", cleanup |-> FALSE]

FsInit(o, k) ==
  /\ os = o
  /\ kind = k
  /\ fsOp = "idle"
  /\ fsPc = "idle"
  /\ fsCalls = 0
  /\ cdOut = "none"
  /\ statOut = "none"
  /\ fsRet = NoRet
  /\ isDir = "none"
  /\ isFile = "none"

\* Whether the remote utility exits with status zero: `cd` into a directory,
\* `stat` of anything that exists.
ExitsZero(name) ==
  IF name = "cd" THEN kind = "dir"
  ELSE IF name = "stat" THEN kind \in {"dir", "file"}
  ELSE TRUE

\* b.Shell(name, ...).Call(ctx): "transport" when the channel cannot be opened or
\* the connection fails, otherwise by the exit status of the utility.
CallResult(name, up) ==
  IF ~up THEN "transport" ELSE IF ExitsZero(name) THEN "ok" ELSE "exit"

\* err != nil after a Call
CallErr(result) == result # "ok"

\* Mutant of ProbeErr: the error of the Call is returned to the caller.
ProbeErrPropagated(result) == IF CallErr(result) THEN "err" ELSE "nil"

\* if err != nil { return false, nil }; return true, nil
ProbeErr(result) == "nil"

ToStr(b) == IF b THEN "true" ELSE "false"

\* A caller calls IsDirectory, IsFile or MakeTempDir.
FsCall(name) ==
  /\ fsOp = "idle"
  /\ fsOp' = name
  /\ fsPc' = IF name = "MakeTempDir" THEN "switch" ELSE "cd"
  /\ fsCalls' = 0
  /\ cdOut' = "none"
  /\ statOut' = "none"
  /\ fsRet' = NoRet
  /\ UNCHANGED <<procVars, lineVars, tunVars, os, kind, isDir, isFile>>

\* IsDirectory: _, err := b.Shell("cd", ...).Call(ctx), and what it returns.
IsDirectory ==
  /\ fsOp = "IsDirectory"
  /\ fsPc = "cd"
  /\ \E up \in BOOLEAN :
       LET result == CallResult("cd", up)
       IN  /\ cdOut' = result
           /\ fsRet' = [value |-> ToStr(~CallErr(result)), err |-> ProbeErr(result),
                        cleanup |-> FALSE]
           /\ isDir' = ToStr(~CallErr(result))
  /\ fsCalls' = fsCalls + 1
  /\ fsPc' = "returned"
  /\ UNCHANGED <<procVars, lineVars, tunVars, os, kind, fsOp, statOut, isFile>>

\* IsFile: dir, err := b.IsDirectory(ctx, inPath);
\* if err == nil && dir { return false, nil }
IsFileDir ==
  /\ fsOp = "IsFile"
  /\ fsPc = "cd"
  /\ \E up \in BOOLEAN :
       LET result == CallResult("cd", up)
           dir == ~CallErr(result)
           err == ProbeErr(result)
       IN  /\ cdOut' = result
           /\ IF err = "nil" /\ dir
              THEN /\ fsRet' = [value |-> "false", err |-> "nil", cleanup |-> FALSE]
                   /\ isFile' = "false"
                   /\ fsPc' = "returned"
              ELSE /\ fsPc' = "stat"
                   /\ UNCHANGED <<fsRet, isFile>>
  /\ fsCalls' = fsCalls + 1
  /\ UNCHANGED <<procVars, lineVars, tunVars, os, kind, fsOp, statOut, isDir>>

\* IsFile: _, err = b.Shell("stat", ...).Call(ctx), and what it returns.
IsFileStat ==
  /\ fsOp = "IsFile"
  /\ fsPc = "stat"
  /\ \E up \in BOOLEAN :
       LET result == CallResult("stat", up)
       IN  /\ statOut' = result
           /\ fsRet' = [value |-> ToStr(~CallErr(result)), err |-> ProbeErr(result),
                        cleanup |-> FALSE]
           /\ isFile' = ToStr(~CallErr(result))
  /\ fsCalls' = fsCalls + 1
  /\ fsPc' = "returned"
  /\ UNCHANGED <<procVars, lineVars, tunVars, os, kind, fsOp, cdOut, isDir>>

\* Mutant of TempDirBranch: every known OS is given the POSIX branch.
TempDirBranchNoWindows(o) ==
  IF o \in {"Linux", "OSX", "Windows"} THEN "posix" ELSE "panic"

\* switch b.os { case device.Linux, device.OSX: ...; case device.Windows: ...;
\* default: panic(...) }
TempDirBranch(o) ==
  IF o \in {"Linux", "OSX"} THEN "posix"
  ELSE IF o = "Windows" THEN "windows"
  ELSE "panic"

\* MakeTempDir: the switch, and createWindowsTempDirectory when it is taken.
MakeTempDirSwitch ==
  /\ fsOp = "MakeTempDir"
  /\ fsPc = "switch"
  /\ LET branch == TempDirBranch(os)
     IN  IF branch = "posix" THEN fsPc' = "mktemp" /\ fsRet' = fsRet
         ELSE IF branch = "windows"
         THEN /\ fsPc' = "returned"
              /\ fsRet' = [value |-> "", err |-> "unsupported", cleanup |-> FALSE]
         ELSE fsPc' = "panicked" /\ fsRet' = fsRet
  /\ UNCHANGED <<procVars, lineVars, tunVars, os, kind, fsOp, fsCalls, cdOut, statOut,
                 isDir, isFile>>

\* createPosixTempDirectory: dir, err := b.Shell("mktemp", "-d").Call(ctx)
createPosixTempDirectory ==
  /\ fsOp = "MakeTempDir"
  /\ fsPc = "mktemp"
  /\ \E up \in BOOLEAN, made \in BOOLEAN :
       fsRet' = IF up /\ made
                THEN [value |-> "dir", err |-> "nil", cleanup |-> TRUE]
                ELSE [value |-> "", err |-> "err", cleanup |-> FALSE]
  /\ fsCalls' = fsCalls + 1
  /\ fsPc' = "returned"
  /\ UNCHANGED <<procVars, lineVars, tunVars, os, kind, fsOp, cdOut, statOut, isDir,
                 isFile>>

\* The caller has the result and may call again.
FsReturn ==
  /\ fsPc = "returned"
  /\ fsOp' = "idle"
  /\ fsPc' = "idle"
  /\ UNCHANGED <<procVars, lineVars, tunVars, os, kind, fsCalls, cdOut, statOut, fsRet,
                 isDir, isFile>>

NextFs ==
  \/ \E name \in {"IsDirectory", "IsFile", "MakeTempDir"} : FsCall(name)
  \/ IsDirectory
  \/ IsFileDir
  \/ IsFileStat
  \/ MakeTempDirSwitch
  \/ createPosixTempDirectory
  \/ FsReturn

\* ------------------------------------------------------------- specifications
\* One Start of a command with any choice of redirected streams, and its Wait.
InitProc ==
  /\ \E c \in Cmds : ProcInit(c)
  /\ LineInit(<<>>, <<>>, <<>>)
  /\ TunnelInit
  /\ FsInit("Linux", "none")

SpecProc == InitProc /\ [][NextProc]_vars

\* The same Start with no output relayed, and a context that may be cancelled.
SpecWait == InitProc /\ [][NextWait]_vars

\* One Start over every choice of directory, command and device environment.
InitLine ==
  /\ ProcInit(NoStreams)
  /\ \E dir \in Dirs, cenv \in Envs, denv \in Envs : LineInit(dir, cenv, denv)
  /\ TunnelInit
  /\ FsInit("Linux", "none")

NextLine == Start

SpecLine == InitLine /\ [][NextLine]_vars

\* One SetupLocalPort and the tunnels of its listener.
InitTunnel ==
  /\ ProcInit(NoStreams)
  /\ LineInit(<<>>, <<>>, <<>>)
  /\ TunnelInit
  /\ FsInit("Linux", "none")

\* Up to MaxConns clients connect; they close or break their connections but
\* send no data.
SpecTunnel == InitTunnel /\ [][NextTunnel]_vars

\* The goroutines run when they can: the watcher once the context is stopped,
\* the accept loop once Accept can return its error, and a Dial returns.
FairSpecTunnel ==
  /\ SpecTunnel
  /\ WF_vars(WatcherClose)
  /\ WF_vars(AcceptClosed)
  /\ WF_vars(Tunnel)

\* One client connects, and the two ends of its tunnel send up to MaxTunBytes.
SpecPair == InitTunnel /\ [][NextPair]_vars

\* The two pumps and the supervisor of the pair run when they can: a Read
\* returns once it has bytes, an end or a closed socket to report.
FairSpecPair ==
  /\ SpecPair
  /\ \A r \in Sides : WF_vars(copy(1, r))
  /\ WF_vars(Supervise(1))

\* Calls of IsDirectory, IsFile and MakeTempDir on a device of any OS kind, for a
\* path of any kind, each Call failing or not.
InitFs ==
  /\ ProcInit(NoStreams)
  /\ LineInit(<<>>, <<>>, <<>>)
  /\ TunnelInit
  /\ \E o \in OSKinds, k \in Kinds : FsInit(o, k)

SpecFs == InitFs /\ [][NextFs]_vars

\* A command that redirects its output is started and waited for while one
\* client's tunnel is set up and torn down: the goroutines that are counted in a
\* sync.WaitGroup, and the waits on those counters.
NextCounters ==
  \/ StartNewSession
  \/ StartStdin
  \/ StartStdout
  \/ StartStderr
  \/ StartSessionStart
  \/ \E s \in OutStreams : RelayEOF(s)
  \/ \E s \in OutStreams : RelayDone(s)
  \/ \E st \in {"zero", "nonzero"} : RemoteExit(st)
  \/ TransportDrop
  \/ WaitCall
  \/ WaitSession
  \/ WaitWg
  \/ SetupLocalPort
  \/ accepted = 0 /\ AcceptConn
  \/ Tunnel
  \/ \E r \in Sides : copy(1, r)
  \/ Supervise(1)
  \/ \E s \in Sides, how \in {"eof", "reset"} : PeerEnd(1, s, how)

InitCounters ==
  /\ \E c \in Cmds : ~c.Stdin /\ ProcInit(c)
  /\ LineInit(<<>>, <<>>, <<>>)
  /\ TunnelInit
  /\ FsInit("Linux", "none")

SpecCounters == InitCounters /\ [][NextCounters]_vars

\* ------------------------------------------------------- claims on Start/Wait
RelayRunning(s) == relay[s] \in {"copying", "copied"}

\* C1 as stated: when Wait has returned, every stdout/stderr relay spawned for
\* the process has finished, having observed end-of-data on its pipe.
C1_WaitAfterRelaysSawEOF ==
  waitPc = "returned" =>
    \A s \in OutStreams : Supplied(s) => relay[s] = "done" /\ relayEnd[s] = "eof"

\* C1 amended: when Wait has returned, every stdout/stderr relay spawned for the
\* process has finished (none is still running), each of them either at
\* end-of-data on its pipe or at a failed write to the caller's stream.
C1_WaitAfterRelays ==
  waitPc = "returned" =>
    \A s \in OutStreams :
      /\ ~RelayRunning(s)
      /\ Supplied(s) => relay[s] = "done" /\ relayEnd[s] \in {"eof", "werr"}

\* Wait has returned for a process with both streams redirected, after output.
C1_Witness ==
  /\ waitPc = "returned"
  /\ cmd.Stdout /\ cmd.Stderr
  /\ relay["stdout"] = "done" /\ relay["stderr"] = "done"
  /\ Len(wrote["stdout"]) > 0 /\ Len(wrote["stderr"]) > 0

C10_NothingPartiallyStarted ==
  startPc = "error" =>
    /\ \A s \in Streams : ~RelayRunning(s)
    /\ session # "open"

\* C3: for every key present in both the device defaults and the command's
\* environment, the value the remote shell has in effect for the started command
\* is the command-level one.
C3_CommandEnvWins ==
  (composed /\ startPc = "returned") =>
    \A i \in DOMAIN cmdEnv, j \in DOMAIN devEnv :
      (cmdEnv[i][1] = devEnv[j][1] /\ cmdEnv[i][1] # <<>>) =>
        EffectiveEnv(val, TrimSpace(cmdEnv[i][1])) = cmdEnv[i][2]

\* ------------------------------------------------------- claims on the tunnel
BothPumpsDone(i) == pump[i]["local"] = "done" /\ pump[i]["remote"] = "done"

\* C4: a socket of a tunnel pair is closed only after both pumps of the pair
\* have finished.
C4_CloseAfterBothPumps ==
  \A i \in Conns, s \in Sides :
    (pair[i] = "up" /\ closed[i][s]) => BothPumpsDone(i)

\* C5 as stated: after a failed dial the accepted connection is closed, the
\* listener stays open and the accept loop goes on (as long as nothing else
\* stops it: the context is not cancelled).
C5_DialFailureKeepsListener ==
  \A i \in Conns :
    (pair[i] = "dialfailed" /\ ~cancelled) =>
      closed[i]["local"] /\ listener = "open" /\ acceptPc # "exited"

\* C5 amended: after a failed dial the accepted connection is closed, the accept
\* loop has exited, the listener is closed and no later connection is accepted.
C5_DialFailureEndsLoop ==
  \A i \in Conns :
    pair[i] = "dialfailed" =>
      /\ closed[i]["local"]
      /\ listener = "closed"
      /\ acceptPc = "exited"
      /\ accepted = i

\* The dial failed for the second connection while the first one is tunnelled.
C5_Witness == pair[1] = "up" /\ pair[2] = "dialfailed"

\* A step in which pair i terminates or is torn down: its far end closes or
\* breaks, one of its pumps leaves its loop, or its supervisor closes it.
PairEvent(i) ==
  /\ pair[i] = "up"
  /\ peer'[i] # peer[i] \/ pump'[i] # pump[i] \/ sup'[i] # sup[i]

\* What a socket close or a pump's end is caused by: the pair's own goroutines.
OwnCauses ==
  /\ \A j \in Conns, s \in Sides :
       /\ (pair[j] = "up" /\ closed[j][s]) => pump[j][Other(s)] = "done"
       /\ pumpEnd[j][s] = "rclosed" => pump[j][Other(s)] = "done"
       /\ (pair[j] # "up") => pump[j][s] = "none"
  /\ listener = "closed" => watcher = "done" \/ acceptPc = "exited"

\* C6: the termination of one pair changes nothing of another pair (sockets,
\* pumps, supervisor) nor the listener and accept loop; sockets are closed and
\* pumps stopped only by their own pair's goroutines.
C6_PairsIsolated ==
  /\ []OwnCauses
  /\ [][\A i \in Conns :
          PairEvent(i) =>
            /\ listener' = listener
            /\ acceptPc' = acceptPc
            /\ \A j \in Conns \ {i} :
                 /\ closed'[j] = closed[j]
                 /\ pump'[j] = pump[j]
                 /\ pumpEnd'[j] = pumpEnd[j]
                 /\ sup'[j] = sup[j]]_vars

\* Pair 1 has been torn down after a copy error while pair 2 is relaying with
\* both sockets open and the listener is open.
C6_Witness ==
  /\ pair[1] = "up" /\ pair[2] = "up"
  /\ sup[1] = "done"
  /\ \E s \in Sides : logged[1][s]
  /\ \A s \in Sides : pump[2][s] = "running" /\ ~closed[2][s]
  /\ listener = "open"

IsPrefix(a, b) == Len(a) <= Len(b) /\ a = SubSeq(b, 1, Len(a))

\* C7: in each direction of each pair the bytes written to the destination are
\* a prefix of the bytes read from the source, and all of them unless a write
\* failed or was short.
C7_ByteFidelity ==
  \A i \in Conns, r \in Sides :
    /\ IsPrefix(out[i][Other(r)], rd[i][r])
    /\ pumpEnd[i][r] \notin {"werr", "short"} => out[i][Other(r)] = rd[i][r]

\* Two different bytes were relayed from the local to the remote socket, up to
\* end-of-data.
C7_Witness ==
  /\ pumpEnd[1]["local"] = "eof"
  /\ out[1]["remote"] = <<0, 1>>
  /\ rd[1]["local"] = <<0, 1>>

\* C8: once the context is cancelled after SetupLocalPort returned a port, the
\* listener is eventually closed and the accept loop eventually exits; no
\* connection is accepted while the listener is closed.
C8_CancelClosesListener ==
  /\ (setup = "returned" /\ cancelled) ~> (listener = "closed" /\ acceptPc = "exited")
  /\ [][listener = "closed" => accepted' = accepted]_vars

\* The watcher closed the listener after a connection was tunnelled, and the
\* accept loop has exited.
C8_Witness ==
  /\ setup = "returned" /\ cancelled
  /\ watcher = "done"
  /\ listener = "closed" /\ acceptPc = "exited"
  /\ pair[1] = "up"

\* C9: once the pump reading the local socket has ended at end-of-data or on a
\* broken local socket, the pump of the other direction is not ended by it: it
\* does not find its source socket closed.
C9_DirectionsIndependent ==
  \A i \in Conns :
    (pump[i]["local"] = "done" /\ pumpEnd[i]["local"] \in {"eof", "rerr"}) =>
      pumpEnd[i]["remote"] # "rclosed"

\* ------------------------------------------------- claims on Wait, Kill, ctx
\* C11: in every state after Wait has returned for a process, the session that
\* Start opened for it is closed.
C11_SessionClosedAfterWait ==
  waitPc = "returned" => session = "closed"

\* Wait has returned nil for a command that exited with status zero.
C11_Witness ==
  waitPc = "returned" /\ waitRet = "nil" /\ remote = "exited" /\ session = "closed"

\* C12: a signal is on the channel only if Kill was called, whatever the state
\* of the context; Wait is past session.Wait only once the remote command has
\* exited or the connection is lost, whatever the state of the context; and a
\* Kill that has been called can return whether or not the command has exited.
C12_OnlyKillSignals ==
  /\ signalled => killPc = "returned"
  /\ waitPc \in {"wgWait", "returned"} => (remote = "exited" \/ ~transport)
  /\ (HasProcess /\ killPc = "idle") => ENABLED Kill

\* The context is cancelled and Kill has returned, its signal sent, while the
\* command still runs and Wait still blocks.
C12_Witness ==
  /\ cancelled
  /\ killPc = "returned"
  /\ signalled
  /\ remote = "running"
  /\ transport
  /\ waitPc = "sessionWait"

\* C18: the counter of the process counts the stdout and stderr relays only; once
\* those have finished Wait can return whatever the stdin relay is doing; the
\* stdin pipe is closed exactly when the stdin relay has stopped, and the relay
\* can stop as soon as the caller's input is exhausted.
C18_StdinOutsideBarrier ==
  /\ wg = Cardinality({s \in OutStreams : RelayRunning(s)})
  /\ (waitPc = "wgWait" /\ \A s \in OutStreams : ~RelayRunning(s)) => ENABLED WaitWg
  /\ stdinClosed <=> relay["stdin"] = "done"
  /\ (relay["stdin"] = "copying" /\ stdinEOF) => ENABLED StdinRelayEnd

\* Wait has returned while the stdin relay is still copying and the stdin pipe is
\* still open.
C18_Witness ==
  waitPc = "returned" /\ relay["stdin"] = "copying" /\ ~stdinClosed

\* ------------------------------------- claims on path probes and MakeTempDir
\* C13: for a path whose kind does not change, IsDirectory and IsFile have never
\* both returned true, whichever of their Calls succeeded or failed.
C13_NeverBothTrue ==
  ~(isDir = "true" /\ isFile = "true")

\* C14: when MakeTempDir has returned on a Windows device it has returned the
\* empty path, no cleanup function and the unsupported error, and has made no
\* Call on the connection; and on such a device it gets nowhere else.
C14_WindowsUnsupported ==
  (fsOp = "MakeTempDir" /\ os = "Windows") =>
    /\ fsPc \in {"switch", "returned"}
    /\ fsCalls = 0
    /\ session = "none"
    /\ fsPc = "returned" =>
         fsRet = [value |-> "", err |-> "unsupported", cleanup |-> FALSE]

\* MakeTempDir has returned on a Windows device.
C14_Witness ==
  fsOp = "MakeTempDir" /\ os = "Windows" /\ fsPc = "returned" /\ fsRet.err = "unsupported"

\* C15: when IsDirectory or IsFile has returned, its error is nil and its value
\* a boolean; the value is false when the `cd` of IsDirectory failed, and when
\* the `stat` of IsFile failed, by its exit status or on the connection.
C15_ProbesSwallowErrors ==
  (fsOp \in {"IsDirectory", "IsFile"} /\ fsPc = "returned") =>
    /\ fsRet.err = "nil"
    /\ fsRet.value \in {"true", "false"}
    /\ (fsOp = "IsDirectory" /\ CallErr(cdOut)) => fsRet.value = "false"
    /\ (fsOp = "IsFile" /\ statOut # "none" /\ CallErr(statOut)) => fsRet.value = "false"

\* IsFile has returned false and nil after its `stat` failed on the connection,
\* and IsDirectory had returned false for the same path.
C15_Witness ==
  /\ fsOp = "IsFile"
  /\ fsPc = "returned"
  /\ statOut = "transport"
  /\ fsRet = [value |-> "false", err |-> "nil", cleanup |-> FALSE]
  /\ isDir = "false"

\* ----------------------------------------- claims on pumps and tunnel teardown
\* The pumps of pair i that have not finished.
RunningPumps(i) == {r \in Sides : pump[i][r] = "running"}

\* The last round of a finished pump had a failed or short Write.
WriteFailed(round) ==
  round.wo.did /\ (round.wo.ew \/ round.wo.nw < round.ro.nr)

\* C16: a pump that has finished has closed the socket it wrote to and has
\* taken itself off the pair's counter, once; it has logged an error exactly when
\* its last Read returned an error other than end-of-data or its last Write
\* failed or was short; and the bytes that came with its last Read were handed to
\* a Write, so that when that Write was complete everything read has been
\* written. A pump that has not finished has logged nothing.
C16_PumpTermination ==
  /\ pair[1] = "up" => twg[1] = Cardinality(RunningPumps(1))
  /\ \A r \in Sides :
       LET round == lastRound[1][r]
       IN  IF pump[1][r] = "done"
           THEN /\ closed[1][Other(r)]
                /\ logged[1][r] <=>
                     (round.ro.er \notin {"nil", "EOF"} \/ WriteFailed(round))
                /\ round.ro.nr > 0 => round.wo.did
                /\ ~WriteFailed(round) => out[1][Other(r)] = rd[1][r]
           ELSE ~logged[1][r] /\ round = NoRound

\* The pump reading the local socket has stopped at a Read that returned a byte
\* together with end-of-data: the byte is written, the remote socket is closed
\* and nothing is logged.
C16_Witness ==
  /\ pump[1]["local"] = "done"
  /\ lastRound[1]["local"].ro = [nr |-> 1, er |-> "EOF"]
  /\ out[1]["remote"] = rd[1]["local"]
  /\ Len(rd[1]["local"]) = 1
  /\ closed[1]["remote"]
  /\ ~logged[1]["local"]

\* The pair is torn down: both pumps done, the supervisor done, both sockets
\* closed.
TornDown(i) ==
  /\ BothPumpsDone(i)
  /\ sup[i] = "done"
  /\ closed[i]["local"]
  /\ closed[i]["remote"]

\* C17: once a pump of the pair has stopped, eventually both pumps have stopped
\* and the supervisor has closed both sockets.
C17_TeardownLive ==
  (pump[1]["local"] = "done" \/ pump[1]["remote"] = "done") ~> TornDown(1)

\* The pair is torn down after the far end of the local socket closed: the other
\* pump was released by the close of the socket it was reading.
C17_Witness ==
  /\ TornDown(1)
  /\ pumpEnd[1]["local"] = "eof"
  /\ pumpEnd[1]["remote"] = "rclosed"
  /\ peer[1]["remote"] = "open"

\* C19: whenever the accept loop has exited the listener is closed; from then on
\* the loop stays exited, the listener closed, and no connection is accepted or
\* given a tunnel; the step in which the loop exits changes nothing of the pairs
\* already up, whose pumps go on reading whatever their sockets have for them.
C19_ExitedLoop ==
  /\ [](acceptPc = "exited" =>
          /\ listener = "closed"
          /\ \A i \in Conns, r \in Sides :
               (pump[i][r] = "running" /\ ReadOutcomes(i, r) # {}) => ENABLED copy(i, r))
  /\ [][acceptPc = "exited" =>
          /\ acceptPc' = "exited"
          /\ listener' = "closed"
          /\ accepted' = accepted
          /\ pair' = pair]_vars
  /\ [][(acceptPc # "exited" /\ acceptPc' = "exited") =>
          \A i \in Conns :
            pair[i] = "up" =>
              /\ pair'[i] = "up"
              /\ closed'[i] = closed[i]
              /\ pump'[i] = pump[i]
              /\ sup'[i] = sup[i]
              /\ twg'[i] = twg[i]]_vars

\* The accept loop has exited on an Accept error, with the context not cancelled,
\* while an established pair still has both pumps running.
C19_Witness ==
  /\ acceptPc = "exited"
  /\ listener = "closed"
  /\ ~cancelled
  /\ pair[1] = "up"
  /\ pair[2] = "none"
  /\ RunningPumps(1) = Sides

\* ------------------------------------------------ claims on the wait groups
\* The relays and pumps registered in a counter and not yet finished.
Registered == {s \in OutStreams : RelayRunning(s)}

\* C20: the counter of the process is the number of its stdout and stderr
\* relays that were spawned and have not called Done, the counter of a tunnel
\* pair the number of its pumps that have not finished; neither is ever negative;
\* and a wait on a counter is past it only when none of its tasks is unfinished.
C20_CountersExact ==
  /\ wg = Cardinality(Registered)
  /\ wg >= 0
  /\ waitPc = "returned" => Registered = {}
  /\ \A i \in Conns :
       /\ twg[i] = Cardinality(RunningPumps(i))
       /\ twg[i] >= 0
       /\ sup[i] = "done" => RunningPumps(i) = {}

\* Both counters are part of the way down: one relay of two and one pump of two
\* have finished, and both waits are blocked.
C20_Witness ==
  /\ wg = 1
  /\ relay["stdout"] = "done"
  /\ RelayRunning("stderr")
  /\ waitPc = "wgWait"
  /\ twg[1] = 1
  /\ sup[1] = "waiting"

====
